---- MODULE Spec2Model ----
(***************************************************************************)
(* A model of compute_sales.py: the two JSON loaders, the cost aggregator  *)
(* and the driver main().                                                  *)
(*                                                                         *)
(* Numbers are JSON integers (Python int).  A JSON value is a record       *)
(* [t, n, s]: its type tag, its number (when t = "num") and its text (when *)
(* t = "str").  A Python dict is a record [keys, val]: the keys in         *)
(* insertion order and the value of each key.                              *)
(***************************************************************************)
EXTENDS Integers, Sequences, FiniteSets

\* Bounds of the model.
MaxLen == 2      \* records in one input file
MaxNum == 2      \* JSON numbers are 0..MaxNum
MaxClock == 1    \* time.time() returns 0..MaxClock
MaxArgc == 4     \* len(sys.argv) is 1..MaxArgc

VARIABLES
    pc,               \* the statement the program is at
    argc,             \* len(sys.argv)
    data,             \* the loader's local: what the input file holds
    idx,              \* position of the loader's for loop in data
    price_catalogue,  \* dict product -> price
    sales_record,     \* dict product -> summed quantity
    total_cost,       \* main's total_cost
    start_time,       \* main's start_time
    execution_time,   \* main's execution_time
    console,          \* the lines printed so far
    results_file,     \* content of SalesResults.txt
    log               \* the calls made so far, in order

vars == <<pc, argc, data, idx, price_catalogue, sales_record, total_cost,
          start_time, execution_time, console, results_file, log>>

----------------------------------------------------------------------------
\* JSON values as json.load delivers them.

Absent == [t |-> "absent", n |-> 0, s |-> ""]    \* the key is not in the object
None == [t |-> "null", n |-> 0, s |-> ""]        \* JSON null, Python None
Num(k) == [t |-> "num", n |-> k, s |-> ""]
Str(x) == [t |-> "str", n |-> 0, s |-> x]

Numbers == {Num(k) : k \in 0..MaxNum}

\* dict.get(key): None when the key is absent.
get(v) == IF v = Absent THEN None ELSE v

\* Python truth value of a JSON value.
Truthy(v) ==
    CASE v.t = "num" -> v.n # 0
      [] v.t = "str" -> v.s # ""
      [] OTHER -> FALSE

\* What a "title" / "Product" field can hold, and a "price" / "Quantity" field.
Identifiers == {Absent, None, Str(""), Str("A"), Str("B")}
Values == {Absent, None, Str("x")} \cup Numbers

\* An array element that is no JSON object (a number, a string, a list).
NonObjectCat == [obj |-> FALSE, title |-> Absent, price |-> Absent]
NonObjectSale == [obj |-> FALSE, Product |-> Absent, Quantity |-> Absent]

CatItems ==
    {[obj |-> TRUE, title |-> i, price |-> v] : i \in Identifiers, v \in Values}
        \cup {NonObjectCat}
SalesItems ==
    {[obj |-> TRUE, Product |-> i, Quantity |-> v] : i \in Identifiers, v \in Values}
        \cup {NonObjectSale}

\* What open() + json.load() find: no file, text that is no JSON, a JSON
\* value that cannot be iterated (a number, null, true), or an array.
FileKinds == {"absent", "malformed", "scalar", "array"}

SeqsUpTo(S, n) == UNION {[1..k -> S] : k \in 0..n}

FileOf(kind, items) == [kind |-> kind, items |-> items]
NoData == FileOf("none", <<>>)

Files(Items) ==
    {FileOf(k, <<>>) : k \in FileKinds \ {"array"}}
        \cup {FileOf("array", s) : s \in SeqsUpTo(Items, MaxLen)}

----------------------------------------------------------------------------
\* Python dicts.

EmptyDict == [keys |-> <<>>, val |-> [k \in {} |-> 0]]

DictKeys(d) == DOMAIN d.val

DictSet(d, k, v) ==
    IF k \in DictKeys(d)
    THEN [d EXCEPT !.val[k] = v]
    ELSE [keys |-> Append(d.keys, k),
          val |-> [x \in DictKeys(d) \cup {k} |-> IF x = k THEN v ELSE d.val[x]]]

\* `not d`
IsEmpty(d) == d.keys = <<>>

----------------------------------------------------------------------------
\* Console lines.

Line(kind, text, quantity, cost) ==
    [kind |-> kind, text |-> text, quantity |-> quantity, cost |-> cost]

InvalidItemLine == Line("invalid_item", "", 0, 0)
NotFoundLine(filename) == Line("file_not_found", filename, 0, 0)
InvalidJsonLine(filename) == Line("invalid_json", filename, 0, 0)

----------------------------------------------------------------------------
\* A loop body that keeps the first price of an identifier (a variant of
\* price_catalogue_item the last-write-wins property tells apart).
price_catalogue_item_keep_first(d, item) ==
    IF ~item.obj
    THEN [raised |-> TRUE, dict |-> d, out |-> <<>>]
    ELSE LET product_id == get(item.title)
             price == get(item.price)
         IN  IF Truthy(product_id) /\ price # None
             THEN [raised |-> FALSE,
                   dict |-> IF product_id.s \in DictKeys(d)
                            THEN d
                            ELSE DictSet(d, product_id.s, price),
                   out |-> <<>>]
             ELSE [raised |-> FALSE, dict |-> d, out |-> <<InvalidItemLine>>]

\* One pass of the loop body of load_price_catalogue on one array element.
\* item.get raises AttributeError on an element that is no object.
price_catalogue_item(d, item) ==
    IF ~item.obj
    THEN [raised |-> TRUE, dict |-> d, out |-> <<>>]
    ELSE LET product_id == get(item.title)
             price == get(item.price)
         IN  IF Truthy(product_id) /\ price # None
             THEN [raised |-> FALSE,
                   dict |-> DictSet(d, product_id.s, price),
                   out |-> <<>>]
             ELSE [raised |-> FALSE, dict |-> d, out |-> <<InvalidItemLine>>]

\* A loop body that overwrites the quantity (`=` for `+=`).
sales_record_item_overwrite(d, item) ==
    IF ~item.obj
    THEN [raised |-> TRUE, dict |-> d, out |-> <<>>]
    ELSE LET product_id == get(item.Product)
             quantity == get(item.Quantity)
         IN  IF Truthy(product_id) /\ quantity # None
             THEN IF quantity.t = "num"
                  THEN [raised |-> FALSE,
                        dict |-> DictSet(d, product_id.s, quantity.n),
                        out |-> <<>>]
                  ELSE [raised |-> TRUE, dict |-> d, out |-> <<>>]
             ELSE [raised |-> FALSE, dict |-> d, out |-> <<InvalidItemLine>>]

\* One pass of the loop body of load_sales_record.  `+= quantity` raises
\* TypeError when quantity is no number; the key is in the dict by then.
sales_record_item(d, item) ==
    IF ~item.obj
    THEN [raised |-> TRUE, dict |-> d, out |-> <<>>]
    ELSE LET product_id == get(item.Product)
             quantity == get(item.Quantity)
         IN  IF Truthy(product_id) /\ quantity # None
             THEN LET d0 == IF product_id.s \notin DictKeys(d)
                            THEN DictSet(d, product_id.s, 0)
                            ELSE d
                  IN  IF quantity.t = "num"
                      THEN [raised |-> FALSE,
                            dict |-> DictSet(d0, product_id.s,
                                             d0.val[product_id.s] + quantity.n),
                            out |-> <<>>]
                      ELSE [raised |-> TRUE, dict |-> d0, out |-> <<>>]
             ELSE [raised |-> FALSE, dict |-> d, out |-> <<InvalidItemLine>>]

\* A whole loader on a whole file: [raised, dict, out].
RECURSIVE price_catalogue_loop(_, _)
price_catalogue_loop(st, items) ==
    IF st.raised \/ items = <<>>
    THEN st
    ELSE LET r == price_catalogue_item(st.dict, Head(items))
         IN  price_catalogue_loop(
                 [raised |-> r.raised, dict |-> r.dict, out |-> st.out \o r.out],
                 Tail(items))

RECURSIVE sales_record_loop(_, _)
sales_record_loop(st, items) ==
    IF st.raised \/ items = <<>>
    THEN st
    ELSE LET r == sales_record_item(st.dict, Head(items))
         IN  sales_record_loop(
                 [raised |-> r.raised, dict |-> r.dict, out |-> st.out \o r.out],
                 Tail(items))

\* What the try block does with the file before the loop starts.
OpenOutcome(file, filename) ==
    CASE file.kind = "absent" ->
             [raised |-> FALSE, loop |-> FALSE, out |-> <<NotFoundLine(filename)>>]
      [] file.kind = "malformed" ->
             [raised |-> FALSE, loop |-> FALSE, out |-> <<InvalidJsonLine(filename)>>]
      [] file.kind = "scalar" ->
             [raised |-> TRUE, loop |-> FALSE, out |-> <<>>]
      [] OTHER ->
             [raised |-> FALSE, loop |-> TRUE, out |-> <<>>]

load_price_catalogue(file, filename) ==
    LET o == OpenOutcome(file, filename)
        st == [raised |-> o.raised, dict |-> EmptyDict, out |-> o.out]
    IN  IF o.loop THEN price_catalogue_loop(st, file.items) ELSE st

load_sales_record(file, filename) ==
    LET o == OpenOutcome(file, filename)
        st == [raised |-> o.raised, dict |-> EmptyDict, out |-> o.out]
    IN  IF o.loop THEN sales_record_loop(st, file.items) ELSE st

----------------------------------------------------------------------------
\* compute_total_cost: [raised, total, out].  The header is printed first;
\* `total_cost += price * quantity` raises TypeError when the price is a
\* string (str * int is a string, int + str is an error), before the row
\* of that product is printed.

HeaderLine == Line("header", "PRODUCT", 0, 0)
RowLine(product, quantity, cost) == Line("row", product, quantity, cost)
NotInCatalogueLine(product) == Line("not_in_catalogue", product, 0, 0)

RECURSIVE total_cost_loop(_, _, _, _)
total_cost_loop(st, keys, catalogue, sales) ==
    IF st.raised \/ keys = <<>>
    THEN st
    ELSE LET product == Head(keys)
             quantity == sales.val[product]
             next ==
                 IF product \in DictKeys(catalogue)
                 THEN IF catalogue.val[product].t = "num"
                      THEN [raised |-> FALSE,
                            total |-> st.total + catalogue.val[product].n * quantity,
                            out |-> Append(st.out,
                                       RowLine(product, quantity,
                                               catalogue.val[product].n * quantity))]
                      ELSE [st EXCEPT !.raised = TRUE]
                 ELSE [st EXCEPT !.out = Append(st.out, NotInCatalogueLine(product))]
         IN  total_cost_loop(next, Tail(keys), catalogue, sales)

\* An aggregator that assigns the line cost to the total (`=` for `+=`).
RECURSIVE total_cost_loop_overwrite(_, _, _, _)
total_cost_loop_overwrite(st, keys, catalogue, sales) ==
    IF st.raised \/ keys = <<>>
    THEN st
    ELSE LET product == Head(keys)
             quantity == sales.val[product]
             next ==
                 IF product \in DictKeys(catalogue)
                 THEN IF catalogue.val[product].t = "num"
                      THEN [raised |-> FALSE,
                            total |-> catalogue.val[product].n * quantity,
                            out |-> Append(st.out,
                                       RowLine(product, quantity,
                                               catalogue.val[product].n * quantity))]
                      ELSE [st EXCEPT !.raised = TRUE]
                 ELSE [st EXCEPT !.out = Append(st.out, NotInCatalogueLine(product))]
         IN  total_cost_loop_overwrite(next, Tail(keys), catalogue, sales)

compute_total_cost_overwrite(catalogue, sales) ==
    total_cost_loop_overwrite(
        [raised |-> FALSE, total |-> 0, out |-> <<HeaderLine>>],
        sales.keys, catalogue, sales)

\* An aggregator that leaves the loop at the first product that is not in
\* the catalogue (`break` after the error line).
RECURSIVE total_cost_loop_break(_, _, _, _)
total_cost_loop_break(st, keys, catalogue, sales) ==
    IF st.raised \/ keys = <<>>
    THEN st
    ELSE LET product == Head(keys)
             quantity == sales.val[product]
         IN  IF product \in DictKeys(catalogue)
             THEN IF catalogue.val[product].t = "num"
                  THEN total_cost_loop_break(
                           [raised |-> FALSE,
                            total |-> st.total + catalogue.val[product].n * quantity,
                            out |-> Append(st.out,
                                       RowLine(product, quantity,
                                               catalogue.val[product].n * quantity))],
                           Tail(keys), catalogue, sales)
                  ELSE [st EXCEPT !.raised = TRUE]
             ELSE [st EXCEPT !.out = Append(st.out, NotInCatalogueLine(product))]

compute_total_cost_break(catalogue, sales) ==
    total_cost_loop_break(
        [raised |-> FALSE, total |-> 0, out |-> <<HeaderLine>>],
        sales.keys, catalogue, sales)

compute_total_cost(catalogue, sales) ==
    total_cost_loop([raised |-> FALSE, total |-> 0, out |-> <<HeaderLine>>],
                    sales.keys, catalogue, sales)

----------------------------------------------------------------------------
\* The driver's output.

UsageLine == Line("usage", "", 0, 0)
ExitingLine == Line("exiting", "", 0, 0)
TotalLine(total) == Line("total", "TOTAL COST OF ALL SALES", 0, total)

\* round(total_cost, 2): a Python int is returned unchanged.
round2(n) == n

FileLine(kind, value) == [kind |-> kind, value |-> value]
NoFile == [exists |-> FALSE, lines |-> <<>>]
StaleFile == [exists |-> TRUE, lines |-> <<FileLine("stale", 0)>>]
ResultsContent(total, elapsed) ==
    [exists |-> TRUE,
     lines |-> <<FileLine("total_cost", round2(total)),
                 FileLine("execution_time", elapsed)>>]

CatalogueFile == "priceCatalogue.json"
SalesFile == "salesRecord.json"

----------------------------------------------------------------------------
\* The loaders, one array element per step.

\* The start of load_price_catalogue on `file`: lines 45-48 and 56-59.
CatOpen(file, pcLoop, pcReturn, pcRaise) ==
    LET o == OpenOutcome(file, CatalogueFile)
    IN  /\ price_catalogue' = EmptyDict
        /\ console' = console \o o.out
        /\ idx' = 1
        /\ pc' = IF o.raised THEN pcRaise ELSE IF o.loop THEN pcLoop ELSE pcReturn
        /\ log' = Append(log, "load_price_catalogue")

\* Lines 49-55 on one element.
CatItem(item, pcLoop, pcRaise) ==
    LET r == price_catalogue_item(price_catalogue, item)
    IN  /\ price_catalogue' = r.dict
        /\ console' = console \o r.out
        /\ idx' = idx + 1
        /\ pc' = IF r.raised THEN pcRaise ELSE pcLoop

\* The start of load_sales_record on `file`: lines 75-78 and 92-95.
SalesOpen(file, pcLoop, pcReturn, pcRaise) ==
    LET o == OpenOutcome(file, SalesFile)
    IN  /\ sales_record' = EmptyDict
        /\ console' = console \o o.out
        /\ idx' = 1
        /\ pc' = IF o.raised THEN pcRaise ELSE IF o.loop THEN pcLoop ELSE pcReturn
        /\ log' = Append(log, "load_sales_record")

\* Lines 79-90 on one element.
SalesItem(item, pcLoop, pcRaise) ==
    LET r == sales_record_item(sales_record, item)
    IN  /\ sales_record' = r.dict
        /\ console' = console \o r.out
        /\ idx' = idx + 1
        /\ pc' = IF r.raised THEN pcRaise ELSE pcLoop

----------------------------------------------------------------------------
\* A loader called on its own, on a file chosen beforehand (SpecLoad).

InitLoad ==
    /\ pc \in {"cat_open", "sales_open"}
    /\ data \in IF pc = "cat_open" THEN Files(CatItems) ELSE Files(SalesItems)
    /\ argc = 3
    /\ idx = 1
    /\ price_catalogue = EmptyDict
    /\ sales_record = EmptyDict
    /\ total_cost = 0
    /\ start_time = 0
    /\ execution_time = 0
    /\ console = <<>>
    /\ results_file = NoFile
    /\ log = <<>>

LoadCatOpen ==
    /\ pc = "cat_open"
    /\ CatOpen(data, "cat_loop", "cat_returned", "cat_raised")
    /\ UNCHANGED <<argc, data, sales_record, total_cost, start_time,
                   execution_time, results_file>>

LoadCatItem ==
    /\ pc = "cat_loop"
    /\ idx <= Len(data.items)
    /\ CatItem(data.items[idx], "cat_loop", "cat_raised")
    /\ UNCHANGED <<argc, data, sales_record, total_cost, start_time,
                   execution_time, results_file, log>>

LoadCatReturn ==
    /\ pc = "cat_loop"
    /\ idx > Len(data.items)
    /\ pc' = "cat_returned"
    /\ UNCHANGED <<argc, data, idx, price_catalogue, sales_record, total_cost,
                   start_time, execution_time, console, results_file, log>>

LoadSalesOpen ==
    /\ pc = "sales_open"
    /\ SalesOpen(data, "sales_loop", "sales_returned", "sales_raised")
    /\ UNCHANGED <<argc, data, price_catalogue, total_cost, start_time,
                   execution_time, results_file>>

LoadSalesItem ==
    /\ pc = "sales_loop"
    /\ idx <= Len(data.items)
    /\ SalesItem(data.items[idx], "sales_loop", "sales_raised")
    /\ UNCHANGED <<argc, data, price_catalogue, total_cost, start_time,
                   execution_time, results_file, log>>

LoadSalesReturn ==
    /\ pc = "sales_loop"
    /\ idx > Len(data.items)
    /\ pc' = "sales_returned"
    /\ UNCHANGED <<argc, data, idx, price_catalogue, sales_record, total_cost,
                   start_time, execution_time, console, results_file, log>>

NextLoad ==
    \/ LoadCatOpen
    \/ LoadCatItem
    \/ LoadCatReturn
    \/ LoadSalesOpen
    \/ LoadSalesItem
    \/ LoadSalesReturn

SpecLoad == InitLoad /\ [][NextLoad]_vars

----------------------------------------------------------------------------
\* main(), on input files whose content is read as the loaders reach it.

Init ==
    /\ pc = "main"
    /\ argc \in 1..MaxArgc
    /\ data = NoData
    /\ idx = 1
    /\ price_catalogue = EmptyDict
    /\ sales_record = EmptyDict
    /\ total_cost = 0
    /\ start_time = 0
    /\ execution_time = 0
    /\ console = <<>>
    /\ results_file \in {NoFile, StaleFile}
    /\ log = <<>>

\* Guards that test less than the code does: `<` for `!=`, `and` for `or`.
WrongArgc_less == argc < 3
Incomplete_and == IsEmpty(price_catalogue) /\ IsEmpty(sales_record)

\* Line 132: len(sys.argv) != 3.
WrongArgc == argc # 3

\* Line 145: not price_catalogue or not sales_record.
Incomplete == IsEmpty(price_catalogue) \/ IsEmpty(sales_record)

\* Lines 132-135.
Usage ==
    /\ pc = "main"
    /\ WrongArgc
    /\ console' = Append(console, UsageLine)
    /\ pc' = "done"
    /\ UNCHANGED <<argc, data, idx, price_catalogue, sales_record, total_cost,
                   start_time, execution_time, results_file, log>>

\* Lines 132 and 137-140.
StartTimer ==
    /\ pc = "main"
    /\ ~WrongArgc
    /\ \E now \in 0..MaxClock : start_time' = now
    /\ log' = Append(log, "start_time")
    /\ pc' = "load_catalogue"
    /\ UNCHANGED <<argc, data, idx, price_catalogue, sales_record, total_cost,
                   execution_time, console, results_file>>

\* Line 142: the call, up to the for loop.
MainCatOpen ==
    /\ pc = "load_catalogue"
    /\ \E kind \in FileKinds :
           CatOpen(FileOf(kind, <<>>), "cat_loop", "load_sales", "crashed")
    /\ UNCHANGED <<argc, data, sales_record, total_cost, start_time,
                   execution_time, results_file>>

MainCatItem ==
    /\ pc = "cat_loop"
    /\ idx <= MaxLen
    /\ \E item \in CatItems : CatItem(item, "cat_loop", "crashed")
    /\ UNCHANGED <<argc, data, sales_record, total_cost, start_time,
                   execution_time, results_file, log>>

\* The array has no more elements: line 61.
MainCatReturn ==
    /\ pc = "cat_loop"
    /\ pc' = "load_sales"
    /\ UNCHANGED <<argc, data, idx, price_catalogue, sales_record, total_cost,
                   start_time, execution_time, console, results_file, log>>

\* Line 143.
MainSalesOpen ==
    /\ pc = "load_sales"
    /\ \E kind \in FileKinds :
           SalesOpen(FileOf(kind, <<>>), "sales_loop", "check", "crashed")
    /\ UNCHANGED <<argc, data, price_catalogue, total_cost, start_time,
                   execution_time, results_file>>

MainSalesItem ==
    /\ pc = "sales_loop"
    /\ idx <= MaxLen
    /\ \E item \in SalesItems : SalesItem(item, "sales_loop", "crashed")
    /\ UNCHANGED <<argc, data, price_catalogue, total_cost, start_time,
                   execution_time, results_file, log>>

\* Line 97.
MainSalesReturn ==
    /\ pc = "sales_loop"
    /\ pc' = "check"
    /\ UNCHANGED <<argc, data, idx, price_catalogue, sales_record, total_cost,
                   start_time, execution_time, console, results_file, log>>

\* Lines 145-147.
ExitOnEmpty ==
    /\ pc = "check"
    /\ Incomplete
    /\ console' = Append(console, ExitingLine)
    /\ pc' = "done"
    /\ UNCHANGED <<argc, data, idx, price_catalogue, sales_record, total_cost,
                   start_time, execution_time, results_file, log>>

\* An aggregation that consumes the sales mapping as it goes (popitem).
Aggregate_consuming ==
    /\ pc = "check"
    /\ ~(IsEmpty(price_catalogue) \/ IsEmpty(sales_record))
    /\ LET r == compute_total_cost(price_catalogue, sales_record)
       IN  /\ console' = console \o r.out
           /\ total_cost' = IF r.raised THEN total_cost ELSE r.total
           /\ pc' = IF r.raised THEN "crashed" ELSE "end_time"
    /\ sales_record' = EmptyDict
    /\ log' = Append(log, "compute_total_cost")
    /\ UNCHANGED <<argc, data, idx, price_catalogue, start_time,
                   execution_time, results_file>>

\* Lines 145 and 149.
Aggregate ==
    /\ pc = "check"
    /\ ~Incomplete
    /\ LET r == compute_total_cost(price_catalogue, sales_record)
       IN  /\ console' = console \o r.out
           /\ total_cost' = IF r.raised THEN total_cost ELSE r.total
           /\ pc' = IF r.raised THEN "crashed" ELSE "end_time"
    /\ log' = Append(log, "compute_total_cost")
    /\ UNCHANGED <<argc, data, idx, price_catalogue, sales_record, start_time,
                   execution_time, results_file>>

\* Lines 151-152.
EndTimer ==
    /\ pc = "end_time"
    /\ \E now \in 0..MaxClock : execution_time' = now - start_time
    /\ log' = Append(log, "end_time")
    /\ pc' = "print_total"
    /\ UNCHANGED <<argc, data, idx, price_catalogue, sales_record, total_cost,
                   start_time, console, results_file>>

\* Line 154.
PrintTotal ==
    /\ pc = "print_total"
    /\ console' = Append(console, TotalLine(round2(total_cost)))
    /\ log' = Append(log, "print_total")
    /\ pc' = "write"
    /\ UNCHANGED <<argc, data, idx, price_catalogue, sales_record, total_cost,
                   start_time, execution_time, results_file>>

\* A write that opens the file in append mode ('a' for 'w').
WriteResults_append ==
    /\ pc = "write"
    /\ results_file' =
           [exists |-> TRUE,
            lines |-> results_file.lines
                          \o ResultsContent(total_cost, execution_time).lines]
    /\ log' = Append(log, "write_results")
    /\ pc' = "done"
    /\ UNCHANGED <<argc, data, idx, price_catalogue, sales_record, total_cost,
                   start_time, execution_time, console>>

\* Lines 156-160.
WriteResults ==
    /\ pc = "write"
    /\ results_file' = ResultsContent(total_cost, execution_time)
    /\ log' = Append(log, "write_results")
    /\ pc' = "done"
    /\ UNCHANGED <<argc, data, idx, price_catalogue, sales_record, total_cost,
                   start_time, execution_time, console>>

Next ==
    \/ Usage
    \/ StartTimer
    \/ MainCatOpen
    \/ MainCatItem
    \/ MainCatReturn
    \/ MainSalesOpen
    \/ MainSalesItem
    \/ MainSalesReturn
    \/ ExitOnEmpty
    \/ Aggregate
    \/ EndTimer
    \/ PrintTotal
    \/ WriteResults

Spec == Init /\ [][Next]_vars

----------------------------------------------------------------------------
\* Properties of the loaders (SpecLoad).

Products == {"A", "B", ""}

\* A record of the data model: an object with a non-empty string identifier
\* and a value that is there and is not null.
ValidCatalogueRecord(item) ==
    /\ item.obj
    /\ item.title.t = "str" /\ item.title.s # ""
    /\ item.price.t \notin {"absent", "null"}

ValidSalesRecord(item) ==
    /\ item.obj
    /\ item.Product.t = "str" /\ item.Product.s # ""
    /\ item.Quantity.t \notin {"absent", "null"}

\* The sum of the quantities of the valid records of `items` that name p.
RECURSIVE SumQuantities(_, _)
SumQuantities(items, p) ==
    IF items = <<>>
    THEN 0
    ELSE (IF ValidSalesRecord(Head(items)) /\ Head(items).Product.s = p
          THEN Head(items).Quantity.n
          ELSE 0) + SumQuantities(Tail(items), p)

Named(items, p) ==
    {i \in 1..Len(items) : ValidSalesRecord(items[i]) /\ items[i].Product.s = p}

Reorderings(items) ==
    {[i \in 1..Len(items) |-> items[f[i]]] :
        f \in {g \in [1..Len(items) -> 1..Len(items)] :
                  \A i, j \in 1..Len(items) : g[i] = g[j] => i = j}}

\* C2: no exception escapes load_price_catalogue or load_sales_record,
\* whatever the input file holds: each of them ends by returning a mapping.
C2_NoExceptionEscapes == pc \notin {"cat_raised", "sales_raised"}

\* C4: when load_sales_record returns, each product is mapped to the sum of
\* the quantities of all the records naming it, and every permutation of the
\* records gives the same product-to-quantity content.
C4_SalesSummedInAnyOrder ==
    (pc = "sales_returned" /\ data.kind = "array") =>
        /\ \A p \in Products :
               /\ p \in DictKeys(sales_record) <=> Named(data.items, p) # {}
               /\ p \in DictKeys(sales_record) =>
                      sales_record.val[p] = SumQuantities(data.items, p)
        /\ \A perm \in Reorderings(data.items) :
               LET r == load_sales_record(FileOf("array", perm), SalesFile)
               IN  ~r.raised /\ r.dict.val = sales_record.val

C4_Witness ==
    /\ pc = "sales_returned"
    /\ Len(data.items) >= 2
    /\ \E i, j \in Named(data.items, "A") :
           /\ i < j
           /\ data.items[i].Quantity.n > 0
           /\ data.items[j].Quantity.n > data.items[i].Quantity.n
           /\ sales_record.val["A"] >=
                  data.items[i].Quantity.n + data.items[j].Quantity.n

\* C5: a record is accepted if and only if both of its fields are present
\* and its value field is not null; an accepted record is inserted into
\* (catalogue) or added to (sales) the mapping, every other record leaves the
\* mapping unchanged and logs exactly one error, and the loop goes on.
\* Stated for the records of the data model: objects whose value field, when
\* it is there, holds a number or null.
PresentNotNull(id, value) ==
    /\ id.t \notin {"absent", "null"}
    /\ value.t \notin {"absent", "null"}

Typed(obj, value) == obj /\ value.t # "str"

C5_AcceptedIffPresentNotNull ==
    [][/\ (/\ pc = "cat_loop"
           /\ idx <= Len(data.items)
           /\ Typed(data.items[idx].obj, data.items[idx].price)) =>
             LET item == data.items[idx]
             IN  /\ pc' = "cat_loop"
                 /\ IF PresentNotNull(item.title, item.price)
                    THEN /\ item.title.s \in DictKeys(price_catalogue')
                         /\ price_catalogue'.val[item.title.s] = item.price
                         /\ console' = console
                    ELSE /\ price_catalogue' = price_catalogue
                         /\ console' = Append(console, InvalidItemLine)
       /\ (/\ pc = "sales_loop"
           /\ idx <= Len(data.items)
           /\ Typed(data.items[idx].obj, data.items[idx].Quantity)) =>
             LET item == data.items[idx]
                 before == IF item.Product.s \in DictKeys(sales_record)
                           THEN sales_record.val[item.Product.s]
                           ELSE 0
             IN  /\ pc' = "sales_loop"
                 /\ IF PresentNotNull(item.Product, item.Quantity)
                    THEN /\ item.Product.s \in DictKeys(sales_record')
                         /\ sales_record'.val[item.Product.s] =
                                before + item.Quantity.n
                         /\ console' = console
                    ELSE /\ sales_record' = sales_record
                         /\ console' = Append(console, InvalidItemLine)
      ]_vars

\* C6: the price load_price_catalogue returns for an identifier is the price
\* of the last valid record carrying it; an identifier no valid record
\* carries is not in the mapping.
Carrying(items, p) ==
    {i \in 1..Len(items) : ValidCatalogueRecord(items[i]) /\ items[i].title.s = p}

Last(S) == CHOOSE i \in S : \A j \in S : j <= i

C6_LastValidPriceWins ==
    (pc = "cat_returned" /\ data.kind = "array") =>
        \A p \in Products :
            /\ p \in DictKeys(price_catalogue) <=> Carrying(data.items, p) # {}
            /\ p \in DictKeys(price_catalogue) =>
                   price_catalogue.val[p] =
                       data.items[Last(Carrying(data.items, p))].price

C6_Witness ==
    /\ pc = "cat_returned"
    /\ \E i, j \in Carrying(data.items, "A") :
           /\ i < j
           /\ data.items[i].price # data.items[j].price
           /\ price_catalogue.val["A"] = data.items[j].price

----------------------------------------------------------------------------
\* Properties of compute_total_cost and main (Spec).

\* The calls of a run that reaches the end of main, in order.
FullRun ==
    <<"start_time", "load_price_catalogue", "load_sales_record",
      "compute_total_cost", "end_time", "print_total", "write_results">>

IsPrefix(s, t) == Len(s) <= Len(t) /\ s = SubSeq(t, 1, Len(s))

Called(name) == \E i \in 1..Len(log) : log[i] = name

\* compute_total_cost has returned.
Aggregated == pc \in {"end_time", "print_total", "write"}

EitherEmpty == IsEmpty(price_catalogue) \/ IsEmpty(sales_record)

Sold == DictKeys(sales_record)
Priced == DictKeys(price_catalogue)

RECURSIVE SumLineCosts(_)
SumLineCosts(S) ==
    IF S = {}
    THEN 0
    ELSE LET p == CHOOSE x \in S : TRUE
         IN  price_catalogue.val[p].n * sales_record.val[p]
                 + SumLineCosts(S \ {p})

\* C1: compute_total_cost returns the sum, over the products that are keys
\* of both mappings, of price * quantity; a sold product that is not in the
\* catalogue adds nothing.
C1_TotalIsSumOverBoth ==
    Aggregated => total_cost = SumLineCosts(Sold \cap Priced)

C1_Witness ==
    /\ pc = "end_time"
    /\ Sold \ Priced # {}
    /\ \E p \in Sold \cap Priced :
           price_catalogue.val[p].n * sales_record.val[p] > 0
    /\ total_cost > 0

\* The file changes in no step but the write at the end of main.
WrittenOnlyByWrite == [][pc # "write" => results_file' = results_file]_vars

\* C3: with two arguments, when a mapping is empty after loading, main
\* prints the exit message and returns; compute_total_cost is not called and
\* SalesResults.txt is left as it was.
C3_EmptyMappingAborts ==
    /\ [](/\ (pc = "check" /\ EitherEmpty) =>
                ~Called("compute_total_cost") /\ ~Called("write_results")
          /\ (pc = "done" /\ argc = 3 /\ EitherEmpty) =>
                /\ console[Len(console)] = ExitingLine
                /\ ~Called("compute_total_cost")
                /\ ~Called("write_results")
                /\ Len(SelectSeq(console, LAMBDA l : l.kind = "header")) = 0)
    /\ [][(pc = "check" /\ EitherEmpty) =>
              pc' = "done" /\ results_file' = results_file]_vars
    /\ WrittenOnlyByWrite

C3_Witness ==
    /\ pc = "done"
    /\ argc = 3
    /\ ~IsEmpty(price_catalogue)
    /\ IsEmpty(sales_record)
    /\ results_file = StaleFile

\* C7: with an argument count other than two, main prints the usage message
\* once and returns: no loader is called, compute_total_cost is not called
\* and SalesResults.txt is left as it was.
C7_WrongArgcDoesNothing ==
    /\ [](argc # 3 =>
              /\ log = <<>>
              /\ pc \in {"main", "done"}
              /\ console = IF pc = "done" THEN <<UsageLine>> ELSE <<>>
              /\ price_catalogue = EmptyDict
              /\ sales_record = EmptyDict)
    /\ [][argc # 3 => results_file' = results_file]_vars

C7_Witness ==
    /\ pc = "done"
    /\ argc = 4
    /\ console = <<UsageLine>>
    /\ results_file = StaleFile

\* What compute_total_cost printed: the lines after the header.
HeaderAt == CHOOSE i \in 1..Len(console) : console[i] = HeaderLine
AggregatorLines == SubSeq(console, HeaderAt + 1, Len(console))

ExpectedLine(product) ==
    IF product \in Priced
    THEN RowLine(product, sales_record.val[product],
                 price_catalogue.val[product].n * sales_record.val[product])
    ELSE NotInCatalogueLine(product)

\* C8: compute_total_cost handles every key of the sales mapping once, in
\* the order the products were first seen, and prints one line per key: a row
\* when the product is in the catalogue, an error naming it when it is not;
\* the products after an unmatched one are still handled and the total is
\* returned.
C8_OneLinePerKeyInOrder ==
    /\ [](pc = "end_time" =>
              /\ Len(AggregatorLines) = Len(sales_record.keys)
              /\ \A i \in 1..Len(sales_record.keys) :
                     AggregatorLines[i] = ExpectedLine(sales_record.keys[i]))
    /\ [][pc = "sales_loop" =>
              \/ sales_record'.keys = sales_record.keys
              \/ /\ Len(sales_record'.keys) = Len(sales_record.keys) + 1
                 /\ SubSeq(sales_record'.keys, 1, Len(sales_record.keys))
                        = sales_record.keys
                 /\ sales_record'.keys[Len(sales_record'.keys)]
                        \notin DictKeys(sales_record)]_vars
    /\ [][(pc = "check" /\ ~EitherEmpty
               /\ \A p \in Sold \cap Priced : price_catalogue.val[p].t = "num")
              => pc' = "end_time"]_vars

C8_Witness ==
    /\ pc = "end_time"
    /\ Len(sales_record.keys) = 2
    /\ sales_record.keys[1] \notin Priced
    /\ sales_record.keys[2] \in Priced
    /\ total_cost > 0

\* C9: in a run with two arguments and two non-empty mappings the steps come
\* in the order start timestamp, catalogue load, sales load, aggregation, end
\* timestamp, total line, results file; the file is written once, after the
\* aggregation, and then holds the rounded total and the elapsed time and
\* nothing else.
C9_StepsInOrderOneWrite ==
    /\ IsPrefix(log, FullRun)
    /\ (results_file \notin {NoFile, StaleFile}) =>
           /\ Called("write_results")
           /\ results_file = ResultsContent(total_cost, execution_time)
           /\ Len(results_file.lines) = 2
    /\ (pc = "done" /\ argc = 3 /\ ~EitherEmpty) =>
           /\ log = FullRun
           /\ results_file.exists
           /\ results_file.lines =
                  <<FileLine("total_cost", SumLineCosts(Sold \cap Priced)),
                    FileLine("execution_time", execution_time)>>
           /\ console[Len(console)] = TotalLine(SumLineCosts(Sold \cap Priced))

C9_Witness ==
    /\ pc = "done"
    /\ log = FullRun
    /\ total_cost > 0
    /\ execution_time > 0
    /\ Len(results_file.lines) = 2

\* C10: the two mappings are read-only once loaded: compute_total_cost and
\* the rest of main leave their keys, values and key order as they are.
CatalogueLoaded ==
    pc \in {"load_sales", "sales_loop", "check", "end_time", "print_total",
            "write", "done"}
SalesLoaded ==
    pc \in {"check", "end_time", "print_total", "write", "done"}

C10_MappingsReadOnly ==
    [][/\ CatalogueLoaded => price_catalogue' = price_catalogue
       /\ SalesLoaded => sales_record' = sales_record]_vars

C10_Witness ==
    /\ pc = "done"
    /\ log = FullRun
    /\ Sold \ Priced # {}
    /\ Priced \ Sold # {}

====
